---- MODULE Spec2Model ----
(***************************************************************************)
(* A model of midge's MQTT codec primitives: the variable byte integer,    *)
(* the fixed header, the fixed-capacity string buffer and the              *)
(* length-prefixed UTF-8 string.  Every codec function is an operator      *)
(* computed the way the Rust code computes it; every action is one call of *)
(* one of them, recorded with its argument and its result.                 *)
(***************************************************************************)
EXTENDS Integers, Sequences, FiniteSets, TLC

VARIABLES
    vbi,              \* Result<VariableByteInt, _> of the last new / decode
    vcall,            \* the last variable-byte-integer call
    hdr,              \* Result<FixedHeader, _> of the last new / new_publish
    hcall,            \* the last fixed-header call
    hout,             \* Result<[u8; 2], _> of the last FixedHeader::encode
    N,                \* the capacity parameter of Utf8String<N> and FixedStr<N>
    overflow_checks,  \* the build: TRUE panics on integer overflow, FALSE wraps
    str,              \* Result<Utf8String<N>, _> of the last new / decode
    scall,            \* the last Utf8String call
    fstr,             \* the FixedStr<N> the run works on, once new has made it
    fcall             \* the last FixedStr call

vars == <<vbi, vcall, hdr, hcall, hout, N, overflow_checks, str, scall,
          fstr, fcall>>

vbiVars == <<vbi, vcall>>
hdrVars == <<hdr, hcall, hout>>
strVars == <<N, overflow_checks, str, scall>>
fixVars == <<fstr, fcall>>

-----------------------------------------------------------------------------
(* Bounds of the model. *)

\* longest byte sequence handed to VariableByteInt::decode
MaxVbiLen == 5

\* largest small capacity N of a Utf8String<N>
MaxCap == 2

\* longest short text handed to Utf8String::set
MaxTextLen == 3

\* longest short target buffer handed to Utf8String::encode
MaxTargetLen == 5

\* longest short source buffer handed to Utf8String::decode
MaxSrcLen == 4

-----------------------------------------------------------------------------
(* Results and machine integers. *)

Ok(v) == [ok |-> TRUE, val |-> v]
Err(e) == [ok |-> FALSE, err |-> e]

Some(v) == [some |-> TRUE, val |-> v]
None == [some |-> FALSE]

\* the call record before any call
NoCall == [op |-> "none"]

\* The largest integer of the model checker, 2^31 - 1.  The u32 arguments of the
\* model stay below it; no u32 computation of the codec exceeds 2^28 (four base-128
\* digits and the multiplier after them), so none wraps.
MaxInt == 2147483646 + 1

\* the number of values of a u16
U16 == 2 ^ 16

\* a panic: the call returns nothing and the thread unwinds
Panic == [ok |-> FALSE, err |-> "panic"]

(* Byte strings.  A byte string is kept as its runs: the sequence of
   [b |-> byte, n |-> count] with count > 0 and neighbouring runs of different
   bytes, so equal byte strings are equal values and a buffer of 65536 bytes
   stays small.  BLen, BAt, BSub and BCat are Len, indexing, SubSeq and \o of
   the byte string. *)

RECURSIVE Norm(_)
Norm(r) ==
    IF r = <<>> THEN <<>>
    ELSE IF r[1].n = 0 THEN Norm(Tail(r))
    ELSE LET rest == Norm(Tail(r))
         IN  IF rest # <<>> /\ rest[1].b = r[1].b
             THEN <<[b |-> r[1].b, n |-> r[1].n + rest[1].n]>> \o Tail(rest)
             ELSE <<r[1]>> \o rest

\* the byte string of a sequence of bytes
B(bytes) == Norm([i \in 1..Len(bytes) |-> [b |-> bytes[i], n |-> 1]])

\* n bytes b
BRep(b, n) == Norm(<<[b |-> b, n |-> n]>>)

RECURSIVE BLen(_)
BLen(r) == IF r = <<>> THEN 0 ELSE r[1].n + BLen(Tail(r))

RECURSIVE BAt(_, _)
BAt(r, i) == IF i <= r[1].n THEN r[1].b ELSE BAt(Tail(r), i - r[1].n)

RECURSIVE BTake(_, _)
BTake(r, k) ==
    IF k <= 0 \/ r = <<>> THEN <<>>
    ELSE IF r[1].n >= k THEN <<[b |-> r[1].b, n |-> k]>>
    ELSE <<r[1]>> \o BTake(Tail(r), k - r[1].n)

RECURSIVE BDrop(_, _)
BDrop(r, k) ==
    IF k <= 0 \/ r = <<>> THEN r
    ELSE IF r[1].n > k THEN <<[b |-> r[1].b, n |-> r[1].n - k]>> \o Tail(r)
    ELSE BDrop(Tail(r), k - r[1].n)

\* bytes m..n, counted from 1
BSub(r, m, n) == BTake(BDrop(r, m - 1), n - m + 1)

BCat(r, t) == Norm(r \o t)

\* the positions of the bytes of r that are not ASCII
RECURSIVE NonAscii(_, _)
NonAscii(r, start) ==
    IF r = <<>> THEN {}
    ELSE (IF r[1].b >= 128 THEN start..(start + r[1].n - 1) ELSE {})
             \cup NonAscii(Tail(r), start + r[1].n)

RECURSIVE BitAnd(_, _)
BitAnd(a, b) ==
    IF a = 0 \/ b = 0 THEN 0
    ELSE (a % 2) * (b % 2) + 2 * BitAnd(a \div 2, b \div 2)

RECURSIVE BitOr(_, _)
BitOr(a, b) ==
    IF a = 0 THEN b
    ELSE IF b = 0 THEN a
    ELSE (IF a % 2 = 1 \/ b % 2 = 1 THEN 1 ELSE 0) + 2 * BitOr(a \div 2, b \div 2)

\* x << n on a u8
Shl8(x, n) == (x * (2 ^ n)) % 256

\* all sequences over S of length at most n
SeqsUpTo(S, n) == UNION {[1..k -> S] : k \in 0..n}

-----------------------------------------------------------------------------
(* VariableByteInt *)

MAX_VALUE == 268435455

RECURSIVE VbiLenLoop(_, _)
VbiLenLoop(x, length) ==
    IF x >= 128 THEN VbiLenLoop(x \div 128, length + 1) ELSE length

VbiNewOffByOne(value) ==
    IF value >= MAX_VALUE THEN Err("MalformedVariableByteInteger")
    ELSE LET length == VbiLenLoop(value, 1)
         IN  IF length > 4 THEN Err("VariableByteIntegerOutOfRange")
             ELSE Ok([value |-> value, length |-> length])

VbiNew(value) ==
    IF value > MAX_VALUE THEN Err("MalformedVariableByteInteger")
    ELSE LET length == VbiLenLoop(value, 1)
         IN  IF length > 4 THEN Err("VariableByteIntegerOutOfRange")
             ELSE Ok([value |-> value, length |-> length])

\* the loop of encode; i counts from 0 as in the code, output is 1-based here
RECURSIVE VbiEncodeLoop(_, _, _)
VbiEncodeLoop(x, output, i) ==
    LET low == x % 128
        rest == x \div 128
        byte == IF rest > 0 THEN BitOr(low, 128) ELSE low
    IN  IF i >= 4 THEN [panic |-> TRUE, bytes |-> output]
        ELSE LET written == [output EXCEPT ![i + 1] = byte]
             IN  IF rest = 0 THEN [panic |-> FALSE, bytes |-> written]
                 ELSE VbiEncodeLoop(rest, written, i + 1)

RECURSIVE VbiEncodeLoopLateStop(_, _, _)
VbiEncodeLoopLateStop(x, output, i) ==
    LET low == x % 128
        rest == x \div 128
        byte == IF rest > 1 THEN BitOr(low, 128) ELSE low
    IN  IF i >= 4 THEN [panic |-> TRUE, bytes |-> output]
        ELSE LET written == [output EXCEPT ![i + 1] = byte]
             IN  IF rest = 0 THEN [panic |-> FALSE, bytes |-> written]
                 ELSE VbiEncodeLoopLateStop(rest, written, i + 1)

VbiEncodeLateStop(v) == VbiEncodeLoopLateStop(v.value, <<0, 0, 0, 0>>, 0)

VbiEncode(v) == VbiEncodeLoop(v.value, <<0, 0, 0, 0>>, 0)

\* the for loop of decode over input.iter().take(4); idx is the 1-based position
RECURSIVE VbiDecodeLoop(_, _, _, _, _)
VbiDecodeLoop(input, idx, multiplier, value, length) ==
    IF idx > Len(input) \/ idx > 4 THEN Err("MalformedVariableByteInteger")
    ELSE LET byte == input[idx]
             digit == BitAnd(byte, 127)
             value2 == value + digit * multiplier
         IN  IF multiplier > 128 * 128 * 128
                 THEN Err("MalformedVariableByteInteger")
             ELSE IF BitAnd(byte, 128) = 0
                 THEN Ok([value |-> value2, length |-> length + 1])
             ELSE VbiDecodeLoop(input, idx + 1, multiplier * 128,
                                value2, length + 1)

RECURSIVE VbiDecodeLoopEarlyGuard(_, _, _, _, _)
VbiDecodeLoopEarlyGuard(input, idx, multiplier, value, length) ==
    IF idx > Len(input) \/ idx > 4 THEN Err("MalformedVariableByteInteger")
    ELSE LET byte == input[idx]
             digit == BitAnd(byte, 127)
             value2 == value + digit * multiplier
         IN  IF multiplier >= 128 * 128 * 128
                 THEN Err("MalformedVariableByteInteger")
             ELSE IF BitAnd(byte, 128) = 0
                 THEN Ok([value |-> value2, length |-> length + 1])
             ELSE VbiDecodeLoopEarlyGuard(input, idx + 1, multiplier * 128,
                                          value2, length + 1)

VbiDecodeEarlyGuard(input) == VbiDecodeLoopEarlyGuard(input, 1, 1, 0, 0)

VbiDecode(input) == VbiDecodeLoop(input, 1, 1, 0, 0)

\* the u32 arguments given to new: the digit-count boundaries and their neighbours
VbiValues ==
    ({d * (128 ^ k) + e : d \in {1, 2, 127}, k \in 0..3, e \in {-1, 0, 1}}
        \cup {25, 431136, MAX_VALUE - 1, MAX_VALUE, MAX_VALUE + 1, MAX_VALUE + 2, 2 * (MAX_VALUE + 1),
               MaxInt - 1, MaxInt})
    \cap (0..MaxInt)

VbiBytes == {0, 1, 127, 128, 255}

VbiInputs == SeqsUpTo(VbiBytes, MaxVbiLen)

\* new and decode are the constructors: each run constructs one value from an
\* input, and then encodes it and decodes what encode returned
VbiNewAct ==
    /\ vcall.op = "none"
    /\ \E v \in VbiValues :
        /\ vbi' = VbiNew(v)
        /\ vcall' = [op |-> "new", arg |-> v]
        /\ UNCHANGED <<fixVars, hdrVars, strVars>>

VbiEncodeAct ==
    /\ vbi.ok
    /\ vcall' = [op |-> "encode", arg |-> vbi.val, out |-> VbiEncode(vbi.val)]
    /\ UNCHANGED <<fixVars, vbi, hdrVars, strVars>>

VbiDecodeAct ==
    /\ vcall.op = "none"
    /\ \E input \in VbiInputs :
        /\ vbi' = VbiDecode(input)
        /\ vcall' = [op |-> "decode", arg |-> input, of |-> None]
        /\ UNCHANGED <<fixVars, hdrVars, strVars>>

\* decode of the array the last encode returned
VbiDecodeEncodedAct ==
    /\ vcall.op = "encode"
    /\ ~vcall.out.panic
    /\ vbi' = VbiDecode(vcall.out.bytes)
    /\ vcall' = [op |-> "decode", arg |-> vcall.out.bytes, of |-> Some(vcall.arg)]
    /\ UNCHANGED <<fixVars, hdrVars, strVars>>

-----------------------------------------------------------------------------
(* FixedHeader *)

ControlPacketType ==
    [RESERVED |-> 0, CONNECT |-> 1, CONNACK |-> 2, PUBLISH |-> 3, PUBACK |-> 4,
     PUBREC |-> 5, PUBREL |-> 6, PUBCOMP |-> 7, SUBSCRIBE |-> 8, SUBACK |-> 9,
     UNSUBSCRIBE |-> 10, UNSUBACK |-> 11, PINGREQ |-> 12, PINGRESP |-> 13,
     DISCONNECT |-> 14, AUTH |-> 15]

PacketTypes == DOMAIN ControlPacketType

QOS == [ATMOSTONCE |-> 0, ATLEASTONCE |-> 1, EXACTLYONCE |-> 2]

QosLevels == DOMAIN QOS

\* the *_FLAGS constants, by packet type
StandardFlags ==
    [CONNECT |-> 0, CONNACK |-> 0, PUBACK |-> 0, PUBREC |-> 0, PUBREL |-> 2,
     PUBCOMP |-> 0, SUBSCRIBE |-> 2, SUBACK |-> 0, UNSUBSCRIBE |-> 2,
     UNSUBACK |-> 0, PINGREQ |-> 0, PINGRESP |-> 0, DISCONNECT |-> 0, AUTH |-> 0]

HdrNewAdmitsPublish(packet_type) ==
    IF packet_type = "RESERVED" THEN Err("InvalidPacketType")
    ELSE Ok([tag |-> "Standard", packet_type |-> packet_type])

HdrNew(packet_type) ==
    IF packet_type = "RESERVED" THEN Err("InvalidPacketType")
    ELSE IF packet_type = "PUBLISH" THEN Err("InvalidPacketType")
    ELSE Ok([tag |-> "Standard", packet_type |-> packet_type])

HdrNewPublish(qos, dup) ==
    Ok([tag |-> "Publish", packet_type |-> "PUBLISH", qos |-> qos, dup |-> dup])

HdrEncodeQosUnshifted(h) ==
    LET typeBits == Shl8(ControlPacketType[h.packet_type], 4)
    IN  IF h.tag = "Standard"
        THEN IF h.packet_type \in DOMAIN StandardFlags
             THEN Ok(<<BitOr(typeBits, StandardFlags[h.packet_type]), 0>>)
             ELSE Err("InvalidPacketType")
        ELSE LET withDup == IF h.dup THEN BitOr(typeBits, 8) ELSE typeBits
             IN  Ok(<<BitOr(withDup, QOS[h.qos]), 0>>)

HdrEncode(h) ==
    LET typeBits == Shl8(ControlPacketType[h.packet_type], 4)
    IN  IF h.tag = "Standard"
        THEN IF h.packet_type \in DOMAIN StandardFlags
             THEN Ok(<<BitOr(typeBits, StandardFlags[h.packet_type]), 0>>)
             ELSE Err("InvalidPacketType")
        ELSE LET withDup == IF h.dup THEN BitOr(typeBits, 8) ELSE typeBits
             IN  Ok(<<BitOr(withDup, Shl8(QOS[h.qos], 1)), 0>>)

HdrNewAct ==
    \E t \in PacketTypes :
        /\ hdr' = HdrNew(t)
        /\ hcall' = [op |-> "new", arg |-> t]
        /\ UNCHANGED <<fixVars, hout, vbiVars, strVars>>

HdrNewPublishAct ==
    \E qos \in QosLevels, dup \in BOOLEAN :
        /\ hdr' = HdrNewPublish(qos, dup)
        /\ hcall' = [op |-> "new_publish", arg |-> <<qos, dup>>]
        /\ UNCHANGED <<fixVars, hout, vbiVars, strVars>>

HdrEncodeAct ==
    /\ hdr.ok
    /\ hcall' = [op |-> "encode", arg |-> hdr.val]
    /\ hout' = HdrEncode(hdr.val)
    /\ UNCHANGED <<fixVars, hdr, vbiVars, strVars>>

-----------------------------------------------------------------------------
(* TwoByteInt *)

TwoByteFromBytes(bytes) == bytes[1] * 256 + bytes[2]

TwoByteToBytes(value) == <<value \div 256, value % 256>>

-----------------------------------------------------------------------------
(* UTF-8 well-formedness, as core::str::from_utf8 decides it *)

IsCont(b) == b \in 128..191

Utf8Width(b) ==
    IF b < 128 THEN 1
    ELSE IF b \in 194..223 THEN 2
    ELSE IF b \in 224..239 THEN 3
    ELSE IF b \in 240..244 THEN 4
    ELSE 0

SecondOk(lead, b) ==
    IF lead = 224 THEN b \in 160..191
    ELSE IF lead = 237 THEN b \in 128..159
    ELSE IF lead = 240 THEN b \in 144..191
    ELSE IF lead = 244 THEN b \in 128..143
    ELSE IsCont(b)

\* every byte is an ASCII byte, or a lead byte followed by the continuation
\* bytes of its character, or a continuation byte inside the character of a
\* lead byte before it (an ASCII byte needs no check, so only the others are
\* visited)
IsUtf8(s) ==
    \A i \in NonAscii(s, 1) :
        LET b == BAt(s, i)
            w == Utf8Width(b)
        IN  \/ /\ IsCont(b)
               /\ \E k \in 1..3 :
                      /\ i - k >= 1
                      /\ Utf8Width(BAt(s, i - k)) > k
                      /\ \A j \in 1..(k - 1) : IsCont(BAt(s, i - j))
            \/ /\ w >= 2
               /\ i + w - 1 <= BLen(s)
               /\ SecondOk(b, BAt(s, i + 1))
               /\ \A j \in 2..(w - 1) : IsCont(BAt(s, i + j))

\* str::contains('\0')
HasNull(s) == \E k \in 1..Len(s) : s[k].b = 0

-----------------------------------------------------------------------------
(* FixedStr<N> *)

FixedStrNew(n) == [buffer |-> BRep(0, n), len |-> 0]

\* push_str refusing a text that fills the buffer exactly
PushStrOffByOne(fs, bytes, n) ==
    IF BLen(bytes) >= n - fs.len
    THEN [res |-> Err("FixedStrBufferOverflow"), fs |-> fs]
    ELSE [res |-> Ok(<<>>),
          fs |-> [buffer |-> BCat(BCat(BSub(fs.buffer, 1, fs.len), bytes),
                                  BSub(fs.buffer, fs.len + BLen(bytes) + 1, n)),
                  len |-> fs.len + BLen(bytes)]]

\* push_str: the result and the buffer after it
PushStr(fs, bytes, n) ==
    IF BLen(bytes) > n - fs.len
    THEN [res |-> Err("FixedStrBufferOverflow"), fs |-> fs]
    ELSE [res |-> Ok(<<>>),
          \* buffer[len..len + bytes.len()].copy_from_slice(bytes)
          fs |-> [buffer |-> BCat(BCat(BSub(fs.buffer, 1, fs.len), bytes),
                                  BSub(fs.buffer, fs.len + BLen(bytes) + 1, n)),
                  len |-> fs.len + BLen(bytes)]]

\* as_str: from_utf8(&buffer[..len]).unwrap()
AsStr(fs) ==
    LET bytes == BSub(fs.buffer, 1, fs.len)
    IN  [panic |-> ~IsUtf8(bytes), bytes |-> bytes]

Clear(fs) == [fs EXCEPT !.len = 0]

FixNewAct ==
    /\ fstr' = Ok(FixedStrNew(N))
    /\ fcall' = [op |-> "new"]
    /\ UNCHANGED <<vbiVars, hdrVars, strVars>>

FixPushStrAct(texts) ==
    /\ fstr.ok
    /\ \E s \in texts :
        LET r == PushStr(fstr.val, s, N)
        IN  /\ fstr' = Ok(r.fs)
            /\ fcall' = [op |-> "push_str", arg |-> s, before |-> fstr.val,
                         res |-> r.res]
    /\ UNCHANGED <<vbiVars, hdrVars, strVars>>

FixClearAct ==
    /\ fstr.ok
    /\ fstr' = Ok(Clear(fstr.val))
    /\ fcall' = [op |-> "clear", before |-> fstr.val]
    /\ UNCHANGED <<vbiVars, hdrVars, strVars>>

-----------------------------------------------------------------------------
(* Utf8String<N> *)

MAX_STR_LEN == 65535

Utf8New(n) == [value |-> FixedStrNew(n), length |-> 0]

\* set: the result and the string after it; value.len() as u16 truncates
Utf8Set(s, text, n) ==
    IF BLen(text) > n THEN [res |-> Err("Utf8StringTooLong"), s |-> s]
    ELSE IF HasNull(text) THEN [res |-> Err("NullTerminatorInString"), s |-> s]
    ELSE LET pushed == PushStr(Clear(s.value), text, n)
         IN  IF pushed.res.ok
             THEN [res |-> Ok(<<>>),
                   s |-> [value |-> pushed.fs, length |-> BLen(text) % U16]]
             ELSE [res |-> pushed.res, s |-> [s EXCEPT !.value = pushed.fs]]

\* encode: the result and the target buffer after it.  self.length + 2 and
\* 2 + self.length are u16 additions: with overflow checks they panic past
\* 65535, without they wrap.
Utf8Encode(s, buffer, checks) ==
    LET L == s.length
        wraps == L + 2 >= U16
        needed == (L + 2) % U16
        \* buffer[..2].copy_from_slice(&length_bytes)
        withPrefix == BCat(B(TwoByteToBytes(L)), BSub(buffer, 3, BLen(buffer)))
        text == AsStr(s.value)
        \* buffer[2..2 + length].copy_from_slice(as_str().as_bytes())
        withText == BCat(BCat(BSub(withPrefix, 1, 2), text.bytes),
                         BSub(withPrefix, 3 + L, BLen(buffer)))
    IN  IF L > MAX_STR_LEN THEN [res |-> Err("Utf8StringTooLong"), buffer |-> buffer]
        ELSE IF wraps /\ checks THEN [res |-> Panic, buffer |-> buffer]
        ELSE IF BLen(buffer) < needed
            THEN [res |-> Err("Utf8BufferOverflow"), buffer |-> buffer]
        \* buffer[..2] past the end
        ELSE IF BLen(buffer) < 2 THEN [res |-> Panic, buffer |-> buffer]
        \* buffer[2..2 + self.length as usize] past the end
        ELSE IF 2 + L > BLen(buffer) THEN [res |-> Panic, buffer |-> withPrefix]
        ELSE IF text.panic THEN [res |-> Panic, buffer |-> withPrefix]
        \* copy_from_slice of slices of different lengths
        ELSE IF BLen(text.bytes) # L THEN [res |-> Panic, buffer |-> withPrefix]
        ELSE [res |-> Ok((2 + L) % U16), buffer |-> withText]

Utf8DecodeNoNullCheck(buffer, n) ==
    IF BLen(buffer) < 2 THEN Err("Utf8MalformedBuffer")
    ELSE LET len == TwoByteFromBytes(<<BAt(buffer, 1), BAt(buffer, 2)>>)
             utf8_bytes == BSub(buffer, 3, 2 + len)
             made == Utf8Set(Utf8New(n), utf8_bytes, n)
         IN  IF len + 2 > BLen(buffer) THEN Err("Utf8MalformedBuffer")
             ELSE IF ~IsUtf8(utf8_bytes) THEN Err("InvalidUTF8String")
             ELSE IF made.res.ok THEN Ok(made.s)
             ELSE made.res

Utf8Decode(buffer, n) ==
    IF BLen(buffer) < 2 THEN Err("Utf8MalformedBuffer")
    ELSE LET len == TwoByteFromBytes(<<BAt(buffer, 1), BAt(buffer, 2)>>)
             utf8_bytes == BSub(buffer, 3, 2 + len)
             made == Utf8Set(Utf8New(n), utf8_bytes, n)
         IN  IF len + 2 > BLen(buffer) THEN Err("Utf8MalformedBuffer")
             ELSE IF ~IsUtf8(utf8_bytes) THEN Err("InvalidUTF8String")
             ELSE IF HasNull(utf8_bytes) THEN Err("NullTerminatorInString")
             ELSE IF made.res.ok THEN Ok(made.s)
             ELSE made.res

\* the call before ended in a panic: the run is over
Panicked == scall.op = "encode" /\ scall.res = Panic

\* new and decode are the constructors of the value the run works on
StrNewAct ==
    /\ scall.op = "none"
    /\ str' = Ok(Utf8New(N))
    /\ scall' = [op |-> "new"]
    /\ UNCHANGED <<fixVars, N, overflow_checks, vbiVars, hdrVars>>

StrDecodeAct(sources) ==
    /\ scall.op = "none"
    /\ \E source \in sources :
        /\ str' = Utf8Decode(source, N)
        /\ scall' = [op |-> "decode", arg |-> source, of |-> None]
    /\ UNCHANGED <<fixVars, N, overflow_checks, vbiVars, hdrVars>>

StrSetAct(texts) ==
    /\ str.ok
    /\ ~Panicked
    /\ \E text \in texts :
        LET r == Utf8Set(str.val, text, N)
        IN  /\ str' = Ok(r.s)
            /\ scall' = [op |-> "set", arg |-> text, before |-> str.val, res |-> r.res]
    /\ UNCHANGED <<fixVars, N, overflow_checks, vbiVars, hdrVars>>

StrEncodeAct(targets) ==
    /\ str.ok
    /\ ~Panicked
    /\ \E target \in targets :
        LET r == Utf8Encode(str.val, target, overflow_checks)
        IN  scall' = [op |-> "encode", arg |-> target, before |-> str.val,
                      out |-> r.buffer, res |-> r.res]
    /\ UNCHANGED <<fixVars, str, N, overflow_checks, vbiVars, hdrVars>>

\* decode of the buffer the last encode wrote
StrDecodeEncodedAct ==
    /\ scall.op = "encode"
    /\ scall.res.ok
    /\ str' = Utf8Decode(scall.out, N)
    /\ scall' = [op |-> "decode", arg |-> scall.out, of |-> Some(str.val)]
    /\ UNCHANGED <<fixVars, N, overflow_checks, vbiVars, hdrVars>>

\* short inputs: NUL, 'A' and the two bytes of U+00E9
TextBytes == {0, 65, 195, 169}

\* a &str is well-formed UTF-8
Texts == {t \in {B(q) : q \in SeqsUpTo(TextBytes, MaxTextLen)} : IsUtf8(t)}

Targets == {BRep(b, k) : b \in {0, 238}, k \in 0..MaxTargetLen}

SrcBytes == {0, 1, 2, 65, 195, 169}

Sources == {B(q) : q \in SeqsUpTo(SrcBytes, MaxSrcLen)}

\* inputs around the 16-bit limit: capacities at and one past u16::MAX, and
\* texts, targets and sources whose lengths straddle it
BigCaps == {MAX_STR_LEN, MAX_STR_LEN + 1}

BigLens == {MAX_STR_LEN - 1, MAX_STR_LEN, MAX_STR_LEN + 1, MAX_STR_LEN + 2}

BigTexts ==
    {BRep(65, k) : k \in {0, 1} \cup BigLens}
    \cup {B(<<0>>), BCat(BRep(65, MAX_STR_LEN - 1), B(<<0>>)),
          BCat(B(<<195, 169>>), BRep(65, MAX_STR_LEN - 2))}

BigTargets ==
    {BRep(238, k) : k \in {0, 1, 2, 3, MAX_STR_LEN + 3} \cup BigLens}

BigSources ==
    {B(<<>>), B(<<0, 1, 65>>), B(<<0, 1, 0>>), B(<<0, 2, 65>>)}
    \cup {BCat(B(TwoByteToBytes(k)), BRep(65, MAX_STR_LEN)) :
              k \in {MAX_STR_LEN - 1, MAX_STR_LEN}}
    \cup {BCat(B(<<255, 255>>), BRep(65, MAX_STR_LEN - 1)),
          BCat(B(<<255, 255, 195>>), BRep(65, MAX_STR_LEN - 1))}

-----------------------------------------------------------------------------
(* Properties of the variable byte integer *)

\* the minimal number of base-128 digits of v
MinDigits(v) ==
    IF v < 128 THEN 1
    ELSE IF v < 128 * 128 THEN 2
    ELSE IF v < 128 * 128 * 128 THEN 3
    ELSE 4

RECURSIVE DigitSum(_, _)
DigitSum(input, k) ==
    IF k = 0 THEN 0
    ELSE DigitSum(input, k - 1) + (input[k] % 128) * (128 ^ (k - 1))

\* C1: round trip. new(v) succeeds for every v <= 0x0FFFFFFF, encode returns a
\* 4-byte array, and decoding that array gives back the encoded value with the
\* minimal number of base-128 digits as its length.
C1_VbiRoundTrip ==
    /\ (vcall.op = "new" /\ vcall.arg <= MAX_VALUE) => vbi.ok
    /\ vcall.op = "encode" => (~vcall.out.panic /\ Len(vcall.out.bytes) = 4)
    /\ (vcall.op = "decode" /\ vcall.of.some) =>
          /\ vbi.ok
          /\ vbi.val.value = vcall.of.val.value
          /\ vbi.val.length = MinDigits(vcall.of.val.value)

\* the largest value has gone through new, encode and decode
C1_Witness ==
    /\ vcall.op = "decode"
    /\ vcall.of.some
    /\ vcall.of.val = [value |-> MAX_VALUE, length |-> 4]
    /\ vcall.arg = <<255, 255, 255, 127>>
    /\ vbi = Ok([value |-> MAX_VALUE, length |-> 4])

\* C5: decode stops and succeeds at the first byte with bit 7 clear when that
\* byte is among the first four, with the digits read so far as the value and
\* their number as the length, whatever follows; otherwise (four continuation
\* bytes, or the input ends first) it fails with MalformedVariableByteInteger.
C5_VbiDecodeTermination ==
    vcall.op = "decode" =>
        LET input == vcall.arg
            stops == {i \in 1..Len(input) : input[i] < 128}
        IN  IF \E i \in stops : i <= 4
            THEN LET k == CHOOSE i \in stops : \A j \in stops : i <= j
                 IN  vbi = Ok([value |-> DigitSum(input, k), length |-> k])
            ELSE vbi = Err("MalformedVariableByteInteger")

\* the largest well-formed 4-byte sequence is accepted, a later byte ignored
C5_Witness ==
    /\ vcall.op = "decode"
    /\ vcall.arg = <<255, 255, 255, 127, 255>>
    /\ vbi = Ok([value |-> MAX_VALUE, length |-> 4])

\* C6: new(v) fails with MalformedVariableByteInteger or
\* VariableByteIntegerOutOfRange for every 32-bit v > 0x0FFFFFFF, and succeeds
\* for every v <= 0x0FFFFFFF with value v and a length in 1..4.
C6_VbiNewRange ==
    vcall.op = "new" =>
        IF vcall.arg > MAX_VALUE
        THEN /\ ~vbi.ok
             /\ vbi.err \in {"MalformedVariableByteInteger",
                             "VariableByteIntegerOutOfRange"}
        ELSE /\ vbi.ok
             /\ vbi.val.value = vcall.arg
             /\ vbi.val.length \in 1..4

\* new was called with the first value past the ceiling and refused it
C6_Witness ==
    /\ vcall.op = "new"
    /\ vcall.arg = MAX_VALUE + 1
    /\ vbi = Err("MalformedVariableByteInteger")

\* C11: minimal length. In every value that new or decode produced, the length
\* field is the minimal number of base-128 digits of the value field. decode
\* counts the bytes it read, so a continuation byte followed by zero digits
\* (0x80 0x00) gives value 0 with length 2.
C11_VbiMinimalLength ==
    vbi.ok => vbi.val.length = MinDigits(vbi.val.value)

-----------------------------------------------------------------------------
(* Properties of the fixed header *)

\* C3: encode of a header built by a constructor never fails and returns two
\* bytes: byte 1 is 0, the high nibble of byte 0 is the packet type number, the
\* low nibble is 0b0010 for SUBSCRIBE, UNSUBSCRIBE and PUBREL and 0 for the
\* other standard types, and for a publish header it is dup * 8 + qos * 2 with
\* qos in 0..2 and packet type number 3.
C3_FixedHeaderEncode ==
    hcall.op = "encode" =>
        LET h == hcall.arg
            out == hout
        IN  /\ out.ok
            /\ Len(out.val) = 2
            /\ out.val[2] = 0
            /\ out.val[1] \div 16 = ControlPacketType[h.packet_type]
            /\ IF h.tag = "Standard"
               THEN out.val[1] % 16 =
                        (IF h.packet_type \in {"SUBSCRIBE", "UNSUBSCRIBE", "PUBREL"}
                         THEN 2 ELSE 0)
               ELSE /\ QOS[h.qos] \in 0..2
                    /\ out.val[1] \div 16 = 3
                    /\ out.val[1] % 16 = (IF h.dup THEN 8 ELSE 0) + 2 * QOS[h.qos]

\* PUBLISH with exactly-once and dup encoded as 0b00111100
C3_Witness ==
    /\ hcall.op = "encode"
    /\ hcall.arg.tag = "Publish"
    /\ hcall.arg.qos = "EXACTLYONCE"
    /\ hcall.arg.dup
    /\ hout = Ok(<<60, 0>>)

\* C4: new(t) fails with InvalidPacketType exactly for RESERVED and PUBLISH and
\* otherwise returns a Standard header carrying t; new_publish always succeeds
\* with packet type PUBLISH; so no Standard header holds RESERVED or PUBLISH
\* and no Publish header holds another type than PUBLISH.
C4_FixedHeaderVariant ==
    /\ hcall.op = "new" =>
          IF hcall.arg \in {"RESERVED", "PUBLISH"}
          THEN hdr = Err("InvalidPacketType")
          ELSE hdr = Ok([tag |-> "Standard", packet_type |-> hcall.arg])
    /\ hcall.op = "new_publish" =>
          hdr = Ok([tag |-> "Publish", packet_type |-> "PUBLISH",
                    qos |-> hcall.arg[1], dup |-> hcall.arg[2]])
    /\ hdr.ok =>
          /\ hdr.val.tag = "Standard" => hdr.val.packet_type \notin {"RESERVED", "PUBLISH"}
          /\ hdr.val.tag = "Publish" => hdr.val.packet_type = "PUBLISH"

\* new was asked for a PUBLISH header and refused
C4_Witness ==
    /\ hcall.op = "new"
    /\ hcall.arg = "PUBLISH"
    /\ hdr = Err("InvalidPacketType")

-----------------------------------------------------------------------------
(* Properties of the length-prefixed string *)

\* the bytes as_str shows
Content(s) == BSub(s.value.buffer, 1, s.value.len)

\* C2: round-trip law. A string reached by successful set calls, encoded into a
\* buffer of at least length + 2 bytes, decodes from that buffer to a value
\* equal to it under the derived equality (backing buffer, used length and
\* length field all equal).
C2_Utf8RoundTrip ==
    (scall.op = "decode" /\ scall.of.some) => str = Ok(scall.of.val)

\* C7: for every length field L, encode fails with Utf8BufferOverflow when the
\* target has fewer than L + 2 bytes, and otherwise writes L big-endian in two
\* bytes and the L content bytes after them, leaves the rest of the target, and
\* returns L + 2; it never panics and never wraps.
C7_Utf8EncodeResult ==
    scall.op = "encode" =>
        LET L == str.val.length
            target == scall.arg
        IN  IF BLen(target) < L + 2
            THEN scall.res = Err("Utf8BufferOverflow")
            ELSE /\ scall.res = Ok(L + 2)
                 /\ scall.out = BCat(BCat(B(<<L \div 256, L % 256>>), Content(str.val)),
                                     BSub(target, L + 3, BLen(target)))

\* C8: set is all-or-nothing. Too long a text (checked first) gives
\* Utf8StringTooLong, a text with a null byte NullTerminatorInString, and both
\* leave the content and the length field as they were; a successful set makes
\* the content the text and the length field the text's byte length.
C8_Utf8SetAllOrNothing ==
    scall.op = "set" =>
        LET text == scall.arg
            before == scall.before
            unchanged == /\ Content(str.val) = Content(before)
                         /\ str.val.length = before.length
        IN  IF BLen(text) > N
            THEN scall.res = Err("Utf8StringTooLong") /\ unchanged
            ELSE IF \E i \in 1..BLen(text) : BAt(text, i) = 0
            THEN scall.res = Err("NullTerminatorInString") /\ unchanged
            ELSE /\ scall.res.ok
                 /\ Content(str.val) = text
                 /\ str.val.length = BLen(text)

\* C9: decode gives, in this order of precedence, Utf8MalformedBuffer for a
\* source of fewer than 2 bytes, Utf8MalformedBuffer when 2 + the declared
\* big-endian length exceeds the source length, InvalidUTF8String when the
\* declared bytes are not UTF-8, NullTerminatorInString when they hold a null
\* byte, Utf8StringTooLong when the declared length exceeds N, and otherwise a
\* string whose content is the declared bytes, whatever follows them.
C9_Utf8DecodeOutcomes ==
    scall.op = "decode" =>
        LET src == scall.arg
            declared == BAt(src, 1) * 256 + BAt(src, 2)
            bytes == BSub(src, 3, 2 + declared)
        IN  IF BLen(src) < 2 THEN str = Err("Utf8MalformedBuffer")
            ELSE IF 2 + declared > BLen(src) THEN str = Err("Utf8MalformedBuffer")
            ELSE IF ~IsUtf8(bytes) THEN str = Err("InvalidUTF8String")
            ELSE IF \E i \in 1..BLen(bytes) : BAt(bytes, i) = 0
                THEN str = Err("NullTerminatorInString")
            ELSE IF declared > N THEN str = Err("Utf8StringTooLong")
            ELSE /\ str.ok
                 /\ Content(str.val) = bytes
                 /\ str.val.length = declared

\* one declared byte was decoded and the byte after it, no UTF-8, ignored
C9_Witness ==
    /\ scall.op = "decode"
    /\ scall.arg = B(<<0, 1, 65, 195>>)
    /\ N = 2
    /\ str.ok
    /\ Content(str.val) = B(<<65>>)

\* C10: length mirror. After any sequence of new, set and decode, for any
\* capacity N, the 16-bit length field equals the used length of the backing
\* buffer.
C10_LengthMirror ==
    str.ok => str.val.length = str.val.value.len

\* C13: frame of encode. A successful encode of a string with length field L
\* leaves every target byte at index L + 2 and after as it was; an encode that
\* does not succeed leaves the whole target as it was; the target keeps its
\* size and the string is the one encode was called on.
C13_Utf8EncodeFrame ==
    scall.op = "encode" =>
        LET L == scall.before.length
            target == scall.arg
            out == scall.out
        IN  /\ str.val = scall.before
            /\ BLen(out) = BLen(target)
            /\ IF scall.res.ok
               THEN BSub(out, L + 3, BLen(out)) = BSub(target, L + 3, BLen(target))
               ELSE out = target

-----------------------------------------------------------------------------
(* Properties of the fixed-capacity buffer *)

\* the bytes of the buffer in use: buffer[..len]
Visible(fs) == BSub(fs.buffer, 1, fs.len)

\* C12: after any sequence of new, push_str and clear the used length is at
\* most N; push_str fails with FixedStrBufferOverflow exactly when the text has
\* more bytes than N minus the used length, and then the used length and the
\* visible content stay; a successful push appends the text to the content and
\* adds its byte count to the used length; clear makes the used length 0.
C12_FixedStrBound ==
    /\ fstr.ok => (fstr.val.len <= N /\ BLen(fstr.val.buffer) = N)
    /\ fcall.op = "push_str" =>
          LET before == fcall.before
              bytes == fcall.arg
          IN  IF BLen(bytes) > N - before.len
              THEN /\ fcall.res = Err("FixedStrBufferOverflow")
                   /\ fstr.val.len = before.len
                   /\ Visible(fstr.val) = Visible(before)
              ELSE /\ fcall.res = Ok(<<>>)
                   /\ fstr.val.len = before.len + BLen(bytes)
                   /\ Visible(fstr.val) = BCat(Visible(before), bytes)
    /\ fcall.op = "clear" => (fstr.ok /\ fstr.val.len = 0)

\* a buffer of two bytes holding "A" has refused the two bytes of U+00E9
C12_Witness ==
    /\ N = 2
    /\ fcall.op = "push_str"
    /\ fcall.arg = B(<<195, 169>>)
    /\ fcall.res = Err("FixedStrBufferOverflow")
    /\ fstr.ok
    /\ fstr.val.len = 1
    /\ Visible(fstr.val) = B(<<65>>)

-----------------------------------------------------------------------------
(* Specifications *)

IdleVbi == vbi = Err("none") /\ vcall = NoCall
IdleHdr == hdr = Err("none") /\ hcall = NoCall /\ hout = Err("none")
IdleStr == N = 0 /\ overflow_checks = FALSE /\ str = Err("none") /\ scall = NoCall
IdleFix == fstr = Err("none") /\ fcall = NoCall

InitVbi == IdleVbi /\ IdleHdr /\ IdleStr /\ IdleFix
NextVbi == VbiNewAct \/ VbiEncodeAct \/ VbiDecodeAct \/ VbiDecodeEncodedAct
SpecVbi == InitVbi /\ [][NextVbi]_vars

InitHdr == IdleVbi /\ IdleHdr /\ IdleStr /\ IdleFix
NextHdr == HdrNewAct \/ HdrNewPublishAct \/ HdrEncodeAct
SpecHdr == InitHdr /\ [][NextHdr]_vars

InitStr ==
    /\ IdleVbi /\ IdleHdr /\ IdleFix
    /\ N \in 0..MaxCap
    /\ overflow_checks \in BOOLEAN
    /\ str = Err("none")
    /\ scall = NoCall
NextStr ==
    \/ StrNewAct
    \/ StrDecodeAct(Sources)
    \/ StrSetAct(Texts)
    \/ StrEncodeAct(Targets)
    \/ StrDecodeEncodedAct
SpecStr == InitStr /\ [][NextStr]_vars

InitStrBig ==
    /\ IdleVbi /\ IdleHdr /\ IdleFix
    /\ N \in BigCaps
    /\ overflow_checks \in BOOLEAN
    /\ str = Err("none")
    /\ scall = NoCall
NextStrBig ==
    \/ StrNewAct
    \/ StrDecodeAct(BigSources)
    \/ StrSetAct(BigTexts)
    \/ StrEncodeAct(BigTargets)
    \/ StrDecodeEncodedAct
SpecStrBig == InitStrBig /\ [][NextStrBig]_vars

InitFix ==
    /\ IdleVbi /\ IdleHdr /\ IdleFix
    /\ N \in 0..MaxCap
    /\ overflow_checks = FALSE
    /\ str = Err("none")
    /\ scall = NoCall
NextFix == FixNewAct \/ FixPushStrAct(Texts) \/ FixClearAct
SpecFix == InitFix /\ [][NextFix]_vars

====
